---- MODULE Spec2Model ----
(***************************************************************************)
(* Model of the CSV dictionary-substitution compressor (compress.py) and   *)
(* decompressor (decompress.py).                                           *)
(*                                                                         *)
(* A cell is a sequence of one-character strings ("apple" is               *)
(* <<"a","p","p","l","e">>), a row is a sequence of cells and a table is a *)
(* sequence of rows, as csv.reader yields them.  Column indexes are        *)
(* Python's (0-based): the cell at position p of a row has index p - 1.    *)
(* The conversion map in memory has integer keys; in the compressed file   *)
(* (JSON) its keys are the decimal strings of those integers.              *)
(***************************************************************************)
EXTENDS Integers, Sequences, FiniteSets, TLC

VARIABLES pc, table, compressed, output, error

vars == <<pc, table, compressed, output, error>>

(***************************************************************************)
(* Bounds of the model.                                                    *)
(***************************************************************************)
MaxRows == 3
MaxCells == 4
MaxFileRows == 2
MaxFileCells == 2
MaxListLen == 2
MaxManyRows == 11
MaxIndepRows == 2
MaxIndepCells == 3

(***************************************************************************)
(* Cell vocabularies.                                                      *)
(***************************************************************************)
Empty == <<>>
Amp0 == <<"&", "0">>
Apple == <<"a", "p", "p", "l", "e">>
Kiwi == <<"k", "i", "w", "i">>

\* cells of the input tables: an empty cell, a two-character cell that
\* begins with the marker, and two values long enough to be counted
Cells == {Empty, Amp0, Apple, Kiwi}

\* cells of hand-made compressed files
FileCells == {<<"&", "0">>, <<"&", "1">>, <<"&", "-", "1">>, <<"&">>,
              <<"&", "x">>, <<"h", "i">>}

\* column keys a hand-made compressed file may carry
MapColumns == {0, 1}

(***************************************************************************)
(* str(int) and int(str)                                                   *)
(***************************************************************************)
Digits == <<"0", "1", "2", "3", "4", "5", "6", "7", "8", "9">>

RECURSIVE Str(_)
\* str(n) for n >= 0: the decimal digits of n
Str(n) == IF n < 10 THEN <<Digits[n + 1]>>
          ELSE Str(n \div 10) \o <<Digits[(n % 10) + 1]>>

DigitValue(c) == CHOOSE d \in 0..9 : Digits[d + 1] = c

IsDigit(c) == \E d \in 0..9 : Digits[d + 1] = c

RECURSIVE DigitsValue(_, _)
\* value of the digit string s, acc being the value of the digits read so far
DigitsValue(s, acc) ==
    IF s = <<>> THEN acc
    ELSE DigitsValue(Tail(s), acc * 10 + DigitValue(Head(s)))

\* int(s): an optional sign, then one or more digits; anything else raises
\* ValueError.  (The vocabularies hold no whitespace and no underscore.)
ParseInt(s) ==
    LET signed == s # <<>> /\ Head(s) \in {"-", "+"}
        body == IF signed THEN Tail(s) ELSE s
    IN IF body = <<>> \/ \E k \in 1..Len(body) : ~IsDigit(body[k])
       THEN [ok |-> FALSE, val |-> 0]
       ELSE [ok |-> TRUE,
             val |-> IF signed /\ Head(s) = "-"
                     THEN 0 - DigitsValue(body, 0)
                     ELSE DigitsValue(body, 0)]

\* str.startswith('&')
StartsWithMarker(cell) == cell # <<>> /\ Head(cell) = "&"

\* the coded string '&' + str(k)
Coded(k) == <<"&">> \o Str(k)

(***************************************************************************)
(* get_conversion_map                                                      *)
(***************************************************************************)
\* Skipped with the threshold set at 4 characters
SkippedUpTo4(column_value) == Len(column_value) <= 4

\* The length test of both passes: values of 2 characters or less are skipped
Skipped(column_value) == Len(column_value) <= 2

RECURSIVE Bump(_, _)
\* an inner dictionary, as the sequence of its (value, count) items in
\* insertion order: the count of column_value incremented, or a new item
\* appended with count 1
Bump(items, column_value) ==
    IF items = <<>> THEN <<[value |-> column_value, count |-> 1]>>
    ELSE IF Head(items).value = column_value
         THEN <<[value |-> column_value, count |-> Head(items).count + 1]>>
              \o Tail(items)
         ELSE <<Head(items)>> \o Bump(Tail(items), column_value)

\* columns_counter[index], a defaultdict(dict): a missing key reads as {}
Items(columns_counter, index) ==
    IF index \in DOMAIN columns_counter THEN columns_counter[index] ELSE <<>>

\* CountCell without the length test: every cell is counted
CountCellNoSkip(columns_counter, index, column_value) ==
    [i \in DOMAIN columns_counter \cup {index} |->
        IF i = index THEN Bump(Items(columns_counter, index), column_value)
        ELSE columns_counter[i]]

\* CountCell counting every column into the dictionary of column 0
CountCellShared(columns_counter, index, column_value) ==
    IF Skipped(column_value) THEN columns_counter
    ELSE [i \in DOMAIN columns_counter \cup {0} |->
            IF i = 0 THEN Bump(Items(columns_counter, 0), column_value)
            ELSE columns_counter[i]]

\* the body of the inner loop for one cell
CountCell(columns_counter, index, column_value) ==
    IF Skipped(column_value) THEN columns_counter
    ELSE [i \in DOMAIN columns_counter \cup {index} |->
            IF i = index THEN Bump(Items(columns_counter, index), column_value)
            ELSE columns_counter[i]]

RECURSIVE CountRow(_, _, _)
\* for index, column_value in enumerate(row), from position p on
CountRow(columns_counter, row, p) ==
    IF p > Len(row) THEN columns_counter
    ELSE CountRow(CountCell(columns_counter, p - 1, row[p]), row, p + 1)

RECURSIVE CountTable(_, _, _)
\* for row in reader, from row r on
CountTable(columns_counter, rows, r) ==
    IF r > Len(rows) THEN columns_counter
    ELSE CountTable(CountRow(columns_counter, rows[r], 1), rows, r + 1)

RECURSIVE InsertByCountUnstable(_, _)
\* InsertByCount placing item before the items of equal count: a sort that
\* does not keep the insertion order of equal counts
InsertByCountUnstable(sorted, item) ==
    IF sorted = <<>> THEN <<item>>
    ELSE IF Head(sorted).count > item.count
         THEN <<Head(sorted)>> \o InsertByCountUnstable(Tail(sorted), item)
         ELSE <<item>> \o sorted

RECURSIVE InsertByCount(_, _)
\* item placed after every item whose count is not smaller than its own
InsertByCount(sorted, item) ==
    IF sorted = <<>> THEN <<item>>
    ELSE IF Head(sorted).count >= item.count
         THEN <<Head(sorted)>> \o InsertByCount(Tail(sorted), item)
         ELSE <<item>> \o sorted

RECURSIVE SortedByCount(_, _)
\* sorted(column.items(), key=itemgetter(1), reverse=True): a stable sort,
\* descending by count, equal counts keeping their insertion order
SortedByCount(items, acc) ==
    IF items = <<>> THEN acc
    ELSE SortedByCount(Tail(items), InsertByCount(acc, Head(items)))

RECURSIVE Phrases(_)
\* [x[0] for x in sorted_column if x[0] is not '']
Phrases(sorted_column) ==
    IF sorted_column = <<>> THEN <<>>
    ELSE (IF Head(sorted_column).value # <<>>
          THEN <<Head(sorted_column).value>> ELSE <<>>)
         \o Phrases(Tail(sorted_column))

\* columns_sorted: one list per key of columns_counter
get_conversion_map(rows) ==
    LET columns_counter == CountTable(<<>>, rows, 1)
    IN [index \in DOMAIN columns_counter |->
            Phrases(SortedByCount(columns_counter[index], <<>>))]

(***************************************************************************)
(* compress_csv_and_save                                                   *)
(***************************************************************************)
\* conversion_map[index], a defaultdict(list): a missing key reads as []
MapList(conversion_map, index) ==
    IF index \in DOMAIN conversion_map THEN conversion_map[index] ELSE <<>>

\* ListIndex counting positions from 1
ListIndexOneBased(list, v) ==
    IF \E k \in 1..Len(list) : list[k] = v
    THEN CHOOSE k \in 1..Len(list) :
            list[k] = v /\ \A j \in 1..(k - 1) : list[j] # v
    ELSE -1

\* list.index(v): the first 0-based position of v, or -1 for ValueError
ListIndex(list, v) ==
    IF \E k \in 1..Len(list) : list[k] = v
    THEN (CHOOSE k \in 1..Len(list) :
             list[k] = v /\ \A j \in 1..(k - 1) : list[j] # v) - 1
    ELSE -1

\* the body of the inner loop for one cell: the cell written, or ValueError
EncodeCell(conversion_map, index, column_value) ==
    IF Skipped(column_value) THEN [err |-> "None", val |-> column_value]
    ELSE LET pos == ListIndex(MapList(conversion_map, index), column_value)
         IN IF pos < 0 THEN [err |-> "ValueError", val |-> column_value]
            ELSE [err |-> "None", val |-> Coded(pos)]

\* one row: the cells replaced in place, or the first error raised
EncodeRow(conversion_map, row) ==
    LET cells == [p \in 1..Len(row) |->
                    EncodeCell(conversion_map, p - 1, row[p])]
    IN IF \E p \in 1..Len(row) : cells[p].err # "None"
       THEN [err |-> cells[CHOOSE p \in 1..Len(row) :
                              /\ cells[p].err # "None"
                              /\ \A q \in 1..(p - 1) : cells[q].err = "None"].err,
             row |-> <<>>]
       ELSE [err |-> "None", row |-> [p \in 1..Len(row) |-> cells[p].val]]

RECURSIVE EncodeTable(_, _, _, _)
\* for row in table: the rows written so far, and the error that stopped the
\* loop if one was raised
EncodeTable(conversion_map, rows, r, written) ==
    IF r > Len(rows) THEN [err |-> "None", rows |-> written]
    ELSE LET res == EncodeRow(conversion_map, rows[r])
         IN IF res.err # "None" THEN [err |-> res.err, rows |-> written]
            ELSE EncodeTable(conversion_map, rows, r + 1,
                             Append(written, res.row))

\* json.dump(conversion_map) read back by json.loads: integer keys become
\* their decimal strings
JsonDump(conversion_map) ==
    [key \in {Str(index) : index \in DOMAIN conversion_map} |->
        conversion_map[CHOOSE index \in DOMAIN conversion_map :
                           Str(index) = key]]

(***************************************************************************)
(* decompress_file_and_save                                                *)
(***************************************************************************)
\* DecodeCell keeping a coded cell it cannot resolve, without an exception
DecodeCellLenient(conversion_map, index, column_value) ==
    IF ~StartsWithMarker(column_value)
    THEN [err |-> "None", val |-> column_value]
    ELSE IF Str(index) \notin DOMAIN conversion_map
    THEN [err |-> "None", val |-> column_value]
    ELSE LET conversion_list == conversion_map[Str(index)]
             parsed == ParseInt(Tail(column_value))
             pos == parsed.val
             n == Len(conversion_list)
         IN IF ~parsed.ok THEN [err |-> "ValueError", val |-> column_value]
            ELSE IF pos >= n \/ pos < 0 - n
            THEN [err |-> "None", val |-> column_value]
            ELSE [err |-> "None",
                  val |-> IF pos >= 0 THEN conversion_list[pos + 1]
                          ELSE conversion_list[n + pos + 1]]

\* DecodeCell reading the list of column 0 for every column
DecodeCellFirstColumn(conversion_map, index, column_value) ==
    IF ~StartsWithMarker(column_value)
    THEN [err |-> "None", val |-> column_value]
    ELSE IF Str(0) \notin DOMAIN conversion_map
    THEN [err |-> "KeyError", val |-> column_value]
    ELSE LET conversion_list == conversion_map[Str(0)]
             parsed == ParseInt(Tail(column_value))
             pos == parsed.val
             n == Len(conversion_list)
         IN IF ~parsed.ok THEN [err |-> "ValueError", val |-> column_value]
            ELSE IF pos >= n \/ pos < 0 - n
            THEN [err |-> "IndexError", val |-> column_value]
            ELSE [err |-> "None",
                  val |-> IF pos >= 0 THEN conversion_list[pos + 1]
                          ELSE conversion_list[n + pos + 1]]

\* the body of the inner loop for one cell: the cell kept or its
\* replacement, or the exception raised
DecodeCell(conversion_map, index, column_value) ==
    IF ~StartsWithMarker(column_value)
    THEN [err |-> "None", val |-> column_value]
    ELSE IF Str(index) \notin DOMAIN conversion_map
    THEN [err |-> "KeyError", val |-> column_value]
    ELSE LET conversion_list == conversion_map[Str(index)]
             parsed == ParseInt(Tail(column_value))
             pos == parsed.val
             n == Len(conversion_list)
         IN IF ~parsed.ok THEN [err |-> "ValueError", val |-> column_value]
            ELSE IF pos >= n \/ pos < 0 - n
            THEN [err |-> "IndexError", val |-> column_value]
            ELSE [err |-> "None",
                  val |-> IF pos >= 0 THEN conversion_list[pos + 1]
                          ELSE conversion_list[n + pos + 1]]

DecodeRow(conversion_map, row) ==
    LET cells == [p \in 1..Len(row) |->
                    DecodeCell(conversion_map, p - 1, row[p])]
    IN IF \E p \in 1..Len(row) : cells[p].err # "None"
       THEN [err |-> cells[CHOOSE p \in 1..Len(row) :
                              /\ cells[p].err # "None"
                              /\ \A q \in 1..(p - 1) : cells[q].err = "None"].err,
             row |-> <<>>]
       ELSE [err |-> "None", row |-> [p \in 1..Len(row) |-> cells[p].val]]

RECURSIVE DecodeTable(_, _, _, _)
\* for row in table: the rows written before the first exception
DecodeTable(conversion_map, rows, r, written) ==
    IF r > Len(rows) THEN [err |-> "None", rows |-> written]
    ELSE LET res == DecodeRow(conversion_map, rows[r])
         IN IF res.err # "None" THEN [err |-> res.err, rows |-> written]
            ELSE DecodeTable(conversion_map, rows, r + 1,
                             Append(written, res.row))

(***************************************************************************)
(* State machine                                                           *)
(***************************************************************************)
NoFile == [map |-> <<>>, rows |-> <<>>]

RECURSIVE CellCount(_)
CellCount(rows) ==
    IF rows = <<>> THEN 0 ELSE Len(Head(rows)) + CellCount(Tail(rows))

\* the input CSV file before the compressor runs: empty
Init ==
    /\ pc = "input"
    /\ table = <<>>
    /\ compressed = NoFile
    /\ output = <<>>
    /\ error = "None"

\* the input file gets one more (empty) row, up to maxRows rows
AppendRow(maxRows) ==
    /\ pc = "input"
    /\ Len(table) < maxRows
    /\ table' = Append(table, <<>>)
    /\ UNCHANGED <<pc, compressed, output, error>>

\* the last row of the input file gets one more cell, up to maxCells cells
AppendCell(c, maxCells) ==
    /\ pc = "input"
    /\ table # <<>>
    /\ CellCount(table) < maxCells
    /\ table' = [table EXCEPT ![Len(table)] = Append(@, c)]
    /\ UNCHANGED <<pc, compressed, output, error>>

WriteRow == AppendRow(MaxRows)

WriteCell(c) == AppendCell(c, MaxCells)

\* compress_csv_and_save(input_file, output_file)
Compress ==
    /\ pc = "input"
    /\ LET conversion_map == get_conversion_map(table)
           res == EncodeTable(conversion_map, table, 1, <<>>)
       IN /\ compressed' = [map |-> JsonDump(conversion_map), rows |-> res.rows]
          /\ error' = res.err
          /\ pc' = IF res.err = "None" THEN "compressed" ELSE "failed"
    /\ UNCHANGED <<table, output>>

\* decompress_file_and_save(compressed_file, output_file)
Decompress ==
    /\ pc = "compressed"
    /\ LET res == DecodeTable(compressed.map, compressed.rows, 1, <<>>)
       IN /\ output' = res.rows
          /\ error' = res.err
    /\ pc' = "decompressed"
    /\ UNCHANGED <<table, compressed>>

Next ==
    \/ WriteRow
    \/ \E c \in Cells : WriteCell(c)
    \/ Compress
    \/ Decompress

\* the compressor and then the decompressor, on every small input table
Spec == Init /\ [][Next]_vars

(***************************************************************************)
(* The decompressor on hand-made compressed files                          *)
(***************************************************************************)
\* the k-th value (0-based) of column col's list in a hand-made map
Word(col, k) == <<"w", Digits[col + 1], Digits[k + 1]>>

\* a compressed file holding the map {} and no row
InitDecode ==
    /\ pc = "compressed"
    /\ table = <<>>
    /\ compressed = NoFile
    /\ output = <<>>
    /\ error = "None"

\* the file's map gets the key str(col), with an empty list
PutMapKey(col) ==
    /\ pc = "compressed"
    /\ Str(col) \notin DOMAIN compressed.map
    /\ compressed' = [compressed EXCEPT !.map =
            [key \in DOMAIN compressed.map \cup {Str(col)} |->
                IF key = Str(col) THEN <<>> ELSE compressed.map[key]]]
    /\ UNCHANGED <<pc, table, output, error>>

\* the list of key str(col) gets one more value
PutMapValue(col) ==
    /\ pc = "compressed"
    /\ Str(col) \in DOMAIN compressed.map
    /\ Len(compressed.map[Str(col)]) < MaxListLen
    /\ compressed' = [compressed EXCEPT !.map[Str(col)] =
            Append(@, Word(col, Len(@)))]
    /\ UNCHANGED <<pc, table, output, error>>

\* the file gets one more (empty) row
PutFileRow ==
    /\ pc = "compressed"
    /\ Len(compressed.rows) < MaxFileRows
    /\ compressed' = [compressed EXCEPT !.rows = Append(@, <<>>)]
    /\ UNCHANGED <<pc, table, output, error>>

\* the last row of the file gets one more cell
PutFileCell(c) ==
    /\ pc = "compressed"
    /\ compressed.rows # <<>>
    /\ CellCount(compressed.rows) < MaxFileCells
    /\ compressed' = [compressed EXCEPT !.rows[Len(compressed.rows)] =
            Append(@, c)]
    /\ UNCHANGED <<pc, table, output, error>>

NextDecode ==
    \/ \E col \in MapColumns : PutMapKey(col)
    \/ \E col \in MapColumns : PutMapValue(col)
    \/ PutFileRow
    \/ \E c \in FileCells : PutFileCell(c)
    \/ Decompress

SpecDecode == InitDecode /\ [][NextDecode]_vars

(***************************************************************************)
(* The compressor on one-column tables of many distinct values             *)
(***************************************************************************)
\* the three-character value "v00", "v01", ..., "v10", "v11", ...
Val(n) == IF n < 10 THEN <<"v", "0">> \o Str(n) ELSE <<"v">> \o Str(n)

\* the input file gets a row holding a value no earlier row holds
WriteDistinctRow ==
    /\ pc = "input"
    /\ Len(table) < MaxManyRows
    /\ table' = Append(table, <<Val(Len(table))>>)
    /\ UNCHANGED <<pc, compressed, output, error>>

\* the input file gets a row holding a two-character value
WriteShortRow ==
    /\ pc = "input"
    /\ Len(table) < MaxManyRows
    /\ table' = Append(table, <<<<"h", "i">>>>)
    /\ UNCHANGED <<pc, compressed, output, error>>

NextMany ==
    \/ WriteDistinctRow
    \/ WriteShortRow
    \/ Compress
    \/ Decompress

SpecMany == Init /\ [][NextMany]_vars

(***************************************************************************)
(* Vocabulary of the properties                                            *)
(***************************************************************************)
\* the rows of a table that have a cell at column index i
RowsWith(rows, i) == {r \in 1..Len(rows) : Len(rows[r]) > i}

\* the column indexes that occur in a table
ColumnIndexes(rows) == UNION {0..(Len(rows[r]) - 1) : r \in 1..Len(rows)}

\* how many cells of column i hold the value v
Occurrences(rows, i, v) ==
    Cardinality({r \in RowsWith(rows, i) : rows[r][i + 1] = v})

\* the first row whose column i holds the value v
FirstSeen(rows, i, v) ==
    CHOOSE r \in RowsWith(rows, i) :
        /\ rows[r][i + 1] = v
        /\ \A q \in RowsWith(rows, i) : rows[q][i + 1] = v => r <= q

\* the values of column i that are longer than 2 characters
LongValues(rows, i) ==
    {rows[r][i + 1] : r \in {q \in RowsWith(rows, i) : Len(rows[q][i + 1]) > 2}}

\* the (row, position) pairs of the cells of a table
Positions(rows) ==
    UNION {{<<r, p>> : p \in 1..Len(rows[r])} : r \in 1..Len(rows)}

\* the elements of a sequence
Range(seq) == {seq[k] : k \in 1..Len(seq)}

\* a non-empty string of decimal digits
AllDigits(s) == s # <<>> /\ \A k \in 1..Len(s) : IsDigit(s[k])

(***************************************************************************)
(* Properties of the compressor followed by the decompressor (Spec)        *)
(***************************************************************************)
\* C1: decompressing the compressor's output ends without error and gives
\* back the input table, cell for cell, for every table, short cells that
\* begin with '&' included.
C1_RoundTrip ==
    pc = "decompressed" => error = "None" /\ output = table

\* C4: each list of the map holds exactly the counted values of its column,
\* in descending order of their number of occurrences, values with equal
\* counts in the order in which they were first seen.
C4_FrequencyOrder ==
    pc = "compressed" =>
        /\ DOMAIN compressed.map =
              {Str(i) : i \in {j \in ColumnIndexes(table) :
                                  LongValues(table, j) # {}}}
        /\ \A i \in ColumnIndexes(table) :
              Str(i) \in DOMAIN compressed.map =>
                 LET seq == compressed.map[Str(i)]
                 IN /\ Range(seq) = LongValues(table, i)
                    /\ \A a, b \in 1..Len(seq) :
                          a < b =>
                             /\ seq[a] \in LongValues(table, i)
                             /\ seq[b] \in LongValues(table, i)
                             /\ \/ Occurrences(table, i, seq[a])
                                      > Occurrences(table, i, seq[b])
                                \/ /\ Occurrences(table, i, seq[a])
                                         = Occurrences(table, i, seq[b])
                                   /\ FirstSeen(table, i, seq[a])
                                         < FirstSeen(table, i, seq[b])

\* C4 witness: a list of two values that occur equally often
C4_Witness ==
    /\ pc = "compressed"
    /\ \E i \in ColumnIndexes(table) :
          /\ Str(i) \in DOMAIN compressed.map
          /\ Len(compressed.map[Str(i)]) = 2
          /\ Occurrences(table, i, compressed.map[Str(i)][1])
                = Occurrences(table, i, compressed.map[Str(i)][2])

\* C5: no list of the map holds a value twice, the empty string, or a value
\* of 2 characters or less; an empty table gives an empty map.
C5_MapValues ==
    pc = "compressed" =>
        /\ \A key \in DOMAIN compressed.map :
              LET seq == compressed.map[key]
              IN /\ \A a, b \in 1..Len(seq) : a # b => seq[a] # seq[b]
                 /\ \A a \in 1..Len(seq) : seq[a] # <<>> /\ Len(seq[a]) > 2
        /\ table = <<>> => DOMAIN compressed.map = {}

\* C5 witness: a column holding an empty cell and the same long value twice
C5_Witness ==
    /\ pc = "compressed"
    /\ \E i \in ColumnIndexes(table) :
          /\ \E r \in RowsWith(table, i) : table[r][i + 1] = <<>>
          /\ \E v \in LongValues(table, i) : Occurrences(table, i, v) = 2
          /\ Str(i) \in DOMAIN compressed.map
          /\ Len(compressed.map[Str(i)]) = 1

\* C6: a cell of 2 characters or less is written unchanged, at its own row
\* and column, by the compressor, and does not pass the decompressor's
\* marker test.
C6_SkipRule ==
    pc = "compressed" =>
        /\ Len(compressed.rows) = Len(table)
        /\ \A r \in 1..Len(table) :
              /\ Len(compressed.rows[r]) = Len(table[r])
              /\ \A p \in 1..Len(table[r]) :
                    Len(table[r][p]) <= 2 =>
                       /\ compressed.rows[r][p] = table[r][p]
                       /\ ~StartsWithMarker(compressed.rows[r][p])

\* C9: the compressor replaces every cell longer than 2 characters by '&'
\* and the position of its value in its column's list; the lookup never
\* fails.
C9_CodedPosition ==
    /\ pc # "failed"
    /\ pc = "compressed" =>
          /\ Len(compressed.rows) = Len(table)
          /\ \A r \in 1..Len(table) :
                /\ Len(compressed.rows[r]) = Len(table[r])
                /\ \A p \in 1..Len(table[r]) :
                      Len(table[r][p]) > 2 =>
                         /\ Str(p - 1) \in DOMAIN compressed.map
                         /\ \E k \in 0..(Len(compressed.map[Str(p - 1)]) - 1) :
                               /\ compressed.map[Str(p - 1)][k + 1] = table[r][p]
                               /\ compressed.rows[r][p] = Coded(k)

\* C9 witness: a value coded as '&1' in the second column
C9_Witness ==
    /\ pc = "compressed"
    /\ \E r \in 1..Len(table) :
          /\ Len(table[r]) = 2
          /\ Len(table[r][2]) > 2
          /\ compressed.rows[r][2] = Coded(1)

(***************************************************************************)
(* Column independence of the compressor (SpecIndep)                       *)
(***************************************************************************)
NextIndep ==
    \/ AppendRow(MaxIndepRows)
    \/ \E c \in Cells : AppendCell(c, MaxIndepCells)
    \/ Compress

\* the compressor on every small input table
SpecIndep == Init /\ [][NextIndep]_vars

\* the tables one edit away from rows that agree with it on column i: a cell
\* of another column replaced, a cell appended to a row where it lands in
\* another column, or the last cell of a row dropped where it is in another
\* column
Variants(rows, i) ==
    {[rows EXCEPT ![at[1]][at[2]] = c] :
        at \in {q \in Positions(rows) : q[2] # i + 1}, c \in Cells}
    \cup {[rows EXCEPT ![r] = Append(@, c)] :
             r \in {q \in 1..Len(rows) : Len(rows[q]) # i}, c \in Cells}
    \cup {[rows EXCEPT ![r] = SubSeq(@, 1, Len(@) - 1)] :
             r \in {q \in 1..Len(rows) :
                      Len(rows[q]) >= 1 /\ Len(rows[q]) # i + 1}}

\* C8: a table that agrees with the input on every cell of column i and
\* differs in another column gets the same list for column i and the same
\* coded cells in column i.
C8_ColumnIndependence ==
    pc = "compressed" =>
        \A i \in ColumnIndexes(table) :
           \A other \in Variants(table, i) :
              LET conversion_map == get_conversion_map(other)
              IN /\ i \in DOMAIN conversion_map <=>
                       Str(i) \in DOMAIN compressed.map
                 /\ i \in DOMAIN conversion_map =>
                       conversion_map[i] = compressed.map[Str(i)]
                 /\ \A r \in RowsWith(table, i) :
                       EncodeCell(conversion_map, i, other[r][i + 1])
                          = [err |-> "None", val |-> compressed.rows[r][i + 1]]

\* C8 witness: a row with long values in two columns, coded in both
C8_Witness ==
    /\ pc = "compressed"
    /\ \E r \in 1..Len(table) :
          /\ Len(table[r]) >= 2
          /\ Len(table[r][1]) > 2
          /\ Len(table[r][2]) > 2
          /\ StartsWithMarker(compressed.rows[r][1])
          /\ StartsWithMarker(compressed.rows[r][2])

(***************************************************************************)
(* Properties of the decompressor on hand-made files (SpecDecode)          *)
(***************************************************************************)
\* C2: a cell that begins with '&' and whose suffix is not a non-negative
\* integer (empty, not digits, or signed) makes the run end in an error, and
\* the row holding it is not written.
C2_BadSuffixFails ==
    pc = "decompressed" =>
        \A at \in Positions(compressed.rows) :
           LET cell == compressed.rows[at[1]][at[2]]
           IN StartsWithMarker(cell) /\ ~AllDigits(Tail(cell)) =>
                 error # "None" /\ Len(output) < at[1]

\* C3: a cell '&k' whose column has no list in the map, or a list of k
\* values or less, makes the run end in an error, and the row holding it is
\* not written.
C3_UnresolvedFails ==
    pc = "decompressed" =>
        \A at \in Positions(compressed.rows) :
           LET cell == compressed.rows[at[1]][at[2]]
               key == Str(at[2] - 1)
           IN \A k \in 0..9 :
                 /\ cell = Coded(k)
                 /\ \/ key \notin DOMAIN compressed.map
                    \/ /\ key \in DOMAIN compressed.map
                       /\ k >= Len(compressed.map[key])
                 => error # "None" /\ Len(output) < at[1]

\* C3 witness: an index past the end of its column's non-empty list stops
\* the run after a row was written
C3_Witness ==
    /\ pc = "decompressed"
    /\ error = "IndexError"
    /\ Len(output) = 1
    /\ Len(compressed.rows) = 2
    /\ compressed.rows[2] = <<Coded(1)>>
    /\ <<"0">> \in DOMAIN compressed.map
    /\ Len(compressed.map[<<"0">>]) = 1

\* C10: in the rows the decompressor writes, a cell '&k' with k inside its
\* own column's list is replaced by the k-th value of that list, a cell
\* that does not begin with '&' is unchanged, and the rows keep their
\* number, order and length.
C10_Decode ==
    pc = "decompressed" =>
        /\ Len(output) <= Len(compressed.rows)
        /\ error = "None" => Len(output) = Len(compressed.rows)
        /\ \A r \in 1..Len(output) :
              /\ r <= Len(compressed.rows)
              /\ Len(output[r]) = Len(compressed.rows[r])
              /\ \A p \in 1..Len(output[r]) :
                    LET cell == compressed.rows[r][p]
                        key == Str(p - 1)
                    IN /\ ~StartsWithMarker(cell) => output[r][p] = cell
                       /\ \A k \in 0..9 :
                             /\ cell = Coded(k)
                             /\ key \in DOMAIN compressed.map
                             /\ k < Len(compressed.map[key])
                             => output[r][p] = compressed.map[key][k + 1]

\* C10 witness: the same coded cell '&0' in two columns of one row, decoded
\* to each column's own first value
C10_Witness ==
    /\ pc = "decompressed"
    /\ error = "None"
    /\ Len(compressed.rows) = 1
    /\ compressed.rows[1] = <<Coded(0), Coded(0)>>
    /\ output = <<<<Word(0, 0), Word(1, 0)>>>>

(***************************************************************************)
(* Properties of the compressor on many distinct values (SpecMany)         *)
(***************************************************************************)
\* the (row, position) pairs of the coded cells the compressor wrote (no
\* input cell of these tables begins with '&')
CodedAt ==
    {at \in Positions(compressed.rows) :
        StartsWithMarker(compressed.rows[at[1]][at[2]])}

\* C7: every coded cell has an index inside its column's list and stands
\* for a value longer than the coded cell itself.
C7_ShorterCode ==
    pc = "compressed" =>
        \A at \in CodedAt :
           LET cell == compressed.rows[at[1]][at[2]]
               key == Str(at[2] - 1)
           IN /\ key \in DOMAIN compressed.map
              /\ \E k \in 0..(Len(compressed.map[key]) - 1) : cell = Coded(k)
              /\ Len(table[at[1]][at[2]]) > Len(cell)

\* C7 as amended: every coded cell has an index inside its column's list
\* and stands for a value longer than 2 characters, the length of the
\* shortest coded cell.
C7_InBoundsAndLong ==
    pc = "compressed" =>
        \A at \in CodedAt :
           LET cell == compressed.rows[at[1]][at[2]]
               key == Str(at[2] - 1)
           IN /\ key \in DOMAIN compressed.map
              /\ \E k \in 0..(Len(compressed.map[key]) - 1) : cell = Coded(k)
              /\ Len(table[at[1]][at[2]]) > 2

\* C7 witness: a three-character value coded as '&10'
C7_Witness ==
    /\ pc = "compressed"
    /\ \E at \in CodedAt :
          /\ compressed.rows[at[1]][at[2]] = Coded(10)
          /\ Len(table[at[1]][at[2]]) = 3

====
